---- MODULE Spec2Model ----
(***************************************************************************)
(* Model of AzureStorageQueueService (lib/services/azure-storage-queue.    *)
(* service.ts): the polling / dispatch / retry engine, together with the   *)
(* part of the Azure queue transport it talks to (receive, delete,         *)
(* visibility timeout, dequeue count, pop receipt).                        *)
(*                                                                         *)
(* JavaScript runs one callback at a time: every action below is the       *)
(* synchronous code that runs between two awaits (or from a timer firing   *)
(* to the next await).  Each startPolling call owns one `poll` closure;    *)
(* a call is identified by an element of Calls.                            *)
(***************************************************************************)
EXTENDS Integers, Sequences, FiniteSets, TLC

\* ---------------------------------------------------------------- bounds
MaxStarts == 2        \* number of startPolling calls in a behaviour
MaxMsgs == 2          \* number of messages present in the transport
MaxDequeue == 2       \* a message is delivered at most this many times (then it expires)

\* ---------------------------------------------------------------- constants
DefaultMaxDequeueCount == 5      \* the literal 5 of `|| 5`
DefaultMaxMessages == 1          \* `maxMessages = 1`
DefaultPollingInterval == 5000   \* the literal 5000 of `|| 5000` (ms)
DefaultVisibilityTimeout == 30   \* the literal 30 of `|| 30` (s)

Undefined == -1                  \* an optional property that is not provided
NoTimer == 0                     \* Map.get() of an absent key

Calls == 1..MaxStarts
Msgs == 1..MaxMsgs
Queues == {"q1", "q2"}

\* Message texts, as sequences of tokens.
PlainText == <<"hi">>
ObjectText == <<"{", "}">>
BrokenText == <<"{", "oops">>
Texts == {PlainText, ObjectText, BrokenText}

ArrayText == <<"[", "]">>
NumberText == <<"4", "2">>

\* JavaScript values: a string with its characters, or a structured value (object,
\* array, number) with its JSON text.
StringValue(text) == [kind |-> "string", text |-> text]
JsonValue(kind, text) == [kind |-> kind, text |-> text]
NoValue == [kind |-> "none", text |-> <<>>]

\* The values the application sends: plain strings, strings that begin with '{'
\* (JSON or not), an object, an array, a number.
SentValues ==
  {StringValue(PlainText), StringValue(ObjectText), StringValue(BrokenText),
   JsonValue("object", ObjectText), JsonValue("array", ArrayText),
   JsonValue("number", NumberText)}

\* The texts of the messages a dispatch goes through: one whose JSON.parse succeeds,
\* one whose JSON.parse throws.
DispatchTexts == {ObjectText, BrokenText}

\* Values the handler options / module configuration take in this model.
MaxDequeueCountOptions == {Undefined, 0, 1, 2}
DefaultMaxDequeueCountOptions == {Undefined, 1}
MaxMessagesOptions == {Undefined, 2}
PollingIntervalOptions == {Undefined, 0}
VisibilityTimeoutOptions == {Undefined, 0}
ModuleDefaultOptions == {Undefined, 0, 1}

VARIABLES
  isShuttingDown,     \* this.isShuttingDown
  pollingIntervals,   \* this.pollingIntervals : queue name -> timer id (NoTimer = absent)
  timerPending,       \* Node's timer table: the timer armed by call c has not fired nor been cleared
  config,             \* this.config (defaultMaxDequeueCount)
  pc,                 \* per startPolling call: where its promise / poll closure stands
  opts,               \* per call: the options object it is given (the handler's metadata)
  maxMessages,        \* per call: the local `maxMessages` bound by the destructuring of lines 44-49
  pollingInterval,    \* per call: the local `pollingInterval` bound there
  visibilityTimeout,  \* per call: the local `visibilityTimeout` bound there
  startsLeft,         \* number of startPolling calls the application still makes
  batch,              \* per call: response.receivedMessageItems of the current iteration
  idx,                \* per call: position of the for-of loop in batch
  log,                \* per call: what the current iteration did, in order
  observe,            \* whether log and batch record what the iterations do (an observer, not program state)
  stopSeen,           \* per call: stopPolling(its queue) has been called while its loop was running
  store               \* the transport: per message its queue, text, dequeue count, visibility, pop receipt

vars == <<isShuttingDown, pollingIntervals, timerPending, config, pc, opts, maxMessages,
          pollingInterval, visibilityTimeout, startsLeft,
          batch, idx, log, observe, stopSeen, store>>

\* ---------------------------------------------------------------- JavaScript helpers
\* a || b
Truthy(x) == x # Undefined /\ x # 0
JsOr(a, b) == IF Truthy(a) THEN a ELSE b

\* destructuring default: `x = d` applies only to undefined
JsDefault(a, d) == IF a = Undefined THEN d ELSE a

Min(a, b) == IF a < b THEN a ELSE b

\* message.messageText.startsWith('{')
StartsWithBrace(text) == Len(text) > 0 /\ text[1] = "{"

\* JSON.parse on the object texts of this model: throws unless the braces close.
JSONParseThrows(text) == ~(Len(text) >= 2 /\ text[1] = "{" /\ text[Len(text)] = "}")

\* JSON.stringify(value) of a structured value: its JSON text.
JSONStringify(v) == v.text

\* JSON.parse(text) of a text that parses: the object written there.
JSONParse(text) == JsonValue("object", text)

\* lines 34-35: typeof message === 'string' ? message : JSON.stringify(message)
MessageContent(v) == IF v.kind = "string" THEN v.text ELSE JSONStringify(v)

\* lines 71-75: the body handed to the handler (when computing it does not throw)
ParsedBody(text) == IF StartsWithBrace(text) THEN JSONParse(text) ELSE StringValue(text)

\* Lines 71-75: computing parsedBody throws (SyntaxError) or not.
ParsedBodyThrows(text) == StartsWithBrace(text) /\ JSONParseThrows(text)

\* ---------------------------------------------------------------- the service's conditions
\* line 51: this.pollingIntervals.has(queueName)
AlreadyPolling(q) == pollingIntervals[q] # NoTimer

\* line 59: if (this.isShuttingDown) return;
ShutdownCheck_never == FALSE
ShutdownCheck == isShuttingDown

\* line 122: if (!this.isShuttingDown) { setTimeout ... }
RescheduleGuard_always == TRUE
RescheduleGuard_never == FALSE
RescheduleGuard == ~isShuttingDown

\* lines 103-105: options.maxDequeueCount || this.config.defaultMaxDequeueCount || 5
PoisonThreshold(o, cfg) ==
  JsOr(o.maxDequeueCount, JsOr(cfg.defaultMaxDequeueCount, DefaultMaxDequeueCount))

\* lines 101-106: message.dequeueCount >= (threshold)
ExceededMaxDequeue_always(dc, thr) == TRUE
ExceededMaxDequeue_shutdown(dc, thr) == isShuttingDown \/ dc >= thr
ExceededMaxDequeue(dc, thr) == dc >= thr

\* lines 51-56: startPolling writes nothing to this.pollingIntervals before it
\* awaits the queue creation (it does not reserve the slot of its queue).
HandleAtStart_reserved(c, o) == [pollingIntervals EXCEPT ![o.queueName] = c]
HandleAtStart(c, o) == pollingIntervals

\* line 123: setTimeout(poll, pollingInterval): a timer that has fired is not pending
\* again (as a setInterval timer would be).
TimerRearms_interval == TRUE
TimerRearms == FALSE

\* line 124: this.pollingIntervals.set(queueName, timeoutId): the key a call writes
HandleKey_shared(o) == "q1"
HandleKey(o) == o.queueName

\* line 46: pollingInterval = this.config.defaultPollingInterval || 5000
ResolvePollingInterval(o, cfg) ==
  JsDefault(o.pollingInterval, JsOr(cfg.defaultPollingInterval, DefaultPollingInterval))

\* line 47: visibilityTimeout = this.config.defaultVisibilityTimeout || 30
ResolveVisibilityTimeout(o, cfg) ==
  JsDefault(o.visibilityTimeout, JsOr(cfg.defaultVisibilityTimeout, DefaultVisibilityTimeout))

\* line 48: maxMessages = 1
ResolveMaxMessages(o) == JsDefault(o.maxMessages, DefaultMaxMessages)

\* ---------------------------------------------------------------- log events
\* The log lg with the events es recorded (when the iterations are observed).
Record(lg, es) == IF observe THEN lg \o es ELSE lg

EvHandler(m) == <<"handler", m.messageId, m.popReceipt>>
EvDelete(id, pop) == <<"delete", id, pop>>
EvParseErr(m) == <<"parseErr", m.messageId, m.popReceipt>>
EvHandlerOk(m) == <<"handlerOk", m.messageId, m.popReceipt>>
EvHandlerErr(m) == <<"handlerErr", m.messageId, m.popReceipt>>
EvDeleteOk(m) == <<"deleteOk", m.messageId, m.popReceipt>>
EvDeleteErr(m) == <<"deleteErr", m.messageId, m.popReceipt>>
EvReceiveErr == <<"receiveErr", 0, 0>>

\* lines 86-89 and 110-113: queueClient.deleteMessage(message.messageId, message.popReceipt)
DeleteCall(m) == EvDelete(m.messageId, m.popReceipt)

\* ---------------------------------------------------------------- the for-of loop
\* Lines 94-114, the inner catch block for message m: log, then either issue the
\* poison delete (and await it) or fall out of the catch to the next message.
\* Lines 68-83: from position k of the batch, run synchronously up to the next await
\* (the handler call of line 77, or the deleteMessage of line 110 when computing
\* parsedBody throws and the threshold is reached), or to the end of the batch.
RECURSIVE Advance(_, _, _, _)
Advance(b, k, lg, thr) ==
  IF k > Len(b)
    THEN [pc |-> "end", idx |-> k, log |-> lg]
    ELSE IF ParsedBodyThrows(b[k].messageText)
      THEN IF ExceededMaxDequeue(b[k].dequeueCount, thr)
             THEN [pc |-> "poisonDeleting", idx |-> k,
                   log |-> Record(lg, <<EvParseErr(b[k]), DeleteCall(b[k])>>)]
             ELSE Advance(b, k + 1, Record(lg, <<EvParseErr(b[k])>>), thr)
      ELSE [pc |-> "handling", idx |-> k, log |-> Record(lg, <<EvHandler(b[k])>>)]

\* The inner catch block entered for message k with the log lg (after a rejected
\* handler, or a rejected deleteMessage of line 86).
Catch(b, k, lg, thr) ==
  IF ExceededMaxDequeue(b[k].dequeueCount, thr)
    THEN [pc |-> "poisonDeleting", idx |-> k, log |-> Record(lg, <<DeleteCall(b[k])>>)]
    ELSE Advance(b, k + 1, lg, thr)

\* Lines 122-125: the end of an iteration of call c.
EndIteration(c) ==
  IF RescheduleGuard
    THEN /\ pc' = [pc EXCEPT ![c] = "sleeping"]
         /\ timerPending' = [timerPending EXCEPT ![c] = TRUE]
         /\ pollingIntervals' = [pollingIntervals EXCEPT ![HandleKey(opts[c])] = c]
    ELSE /\ pc' = [pc EXCEPT ![c] = "stopped"]
         /\ UNCHANGED <<timerPending, pollingIntervals>>

\* Call c, over the batch b, goes on as r says: to its next await, or to the end of
\* the iteration (where the batch is garbage, kept only for the observer).
Continue(c, b, r) ==
  /\ log' = [log EXCEPT ![c] = r.log]
  /\ IF r.pc = "end"
       THEN /\ EndIteration(c)
            /\ IF observe
                 THEN batch' = [batch EXCEPT ![c] = b] /\ idx' = [idx EXCEPT ![c] = r.idx]
                 ELSE batch' = [batch EXCEPT ![c] = <<>>] /\ idx' = [idx EXCEPT ![c] = 0]
       ELSE /\ pc' = [pc EXCEPT ![c] = r.pc]
            /\ batch' = [batch EXCEPT ![c] = b]
            /\ idx' = [idx EXCEPT ![c] = r.idx]
            /\ UNCHANGED <<timerPending, pollingIntervals>>

\* The iteration of call c ended where it stands: its batch is garbage, kept only for
\* the observer.
Forget(c) ==
  IF observe
    THEN UNCHANGED <<batch, idx>>
    ELSE batch' = [batch EXCEPT ![c] = <<>>] /\ idx' = [idx EXCEPT ![c] = 0]

\* Lines 58-65: poll() from its top: return when shutting down, else issue receiveMessages.
PollTop(c) ==
  /\ pc' = [pc EXCEPT ![c] = IF ShutdownCheck THEN "returned" ELSE "receiving"]
  /\ batch' = [batch EXCEPT ![c] = <<>>]
  /\ idx' = [idx EXCEPT ![c] = 0]
  /\ log' = [log EXCEPT ![c] = <<>>]

Threshold(c) == PoisonThreshold(opts[c], config)
Current(c) == batch[c][idx[c]]

\* ---------------------------------------------------------------- the transport
\* The visible messages of queue q, in queue order.
RECURSIVE VisibleFrom(_, _)
VisibleFrom(q, m) ==
  IF m > MaxMsgs THEN <<>>
  ELSE IF store[m].exists /\ store[m].visible /\ store[m].queue = q
         THEN <<m>> \o VisibleFrom(q, m + 1)
         ELSE VisibleFrom(q, m + 1)

\* receiveMessages({numberOfMessages, visibilityTimeout}): the first n visible messages.
Received(q, n) == SubSeq(VisibleFrom(q, 1), 1, Min(n, Len(VisibleFrom(q, 1))))

\* What the service is handed for message m: the dequeue count incremented, a new pop receipt.
Delivery(m) ==
  [messageId |-> m, messageText |-> store[m].text,
   dequeueCount |-> store[m].dequeueCount + 1,
   popReceipt |-> store[m].dequeueCount + 1]

\* A deleted message: nothing of it is left in the queue.
Deleted(r) == [r EXCEPT !.exists = FALSE, !.visible = FALSE, !.dequeueCount = 0,
                        !.popReceipt = 0, !.text = <<>>]

\* deleteMessage(id, popReceipt) succeeds only with the receipt of the latest delivery.
CanDelete(m) == store[m.messageId].exists /\ store[m.messageId].popReceipt = m.popReceipt

\* ---------------------------------------------------------------- initial state
Options == [queueName : Queues, maxDequeueCount : MaxDequeueCountOptions,
            maxMessages : MaxMessagesOptions, pollingInterval : PollingIntervalOptions,
            visibilityTimeout : VisibilityTimeoutOptions]

\* The options that leave the timing parameters to the defaults.
DefaultTiming(o) == o.pollingInterval = Undefined /\ o.visibilityTimeout = Undefined

\* A module configuration that provides no default but the given max dequeue count.
ConfigWith(v) == [defaultMaxDequeueCount |-> v, defaultPollingInterval |-> Undefined,
                  defaultVisibilityTimeout |-> Undefined]

\* The state after construction, whatever the handlers' options and the queue's content.
InitService ==
  /\ isShuttingDown = FALSE
  /\ pollingIntervals = [q \in Queues |-> NoTimer]
  /\ timerPending = [c \in Calls |-> FALSE]
  /\ pc = [c \in Calls |-> "idle"]
  /\ batch = [c \in Calls |-> <<>>]
  /\ idx = [c \in Calls |-> 0]
  /\ log = [c \in Calls |-> <<>>]
  /\ stopSeen = [c \in Calls |-> FALSE]
  /\ maxMessages = [c \in Calls |-> Undefined]
  /\ pollingInterval = [c \in Calls |-> Undefined]
  /\ visibilityTimeout = [c \in Calls |-> Undefined]

\* Several startPolling calls over two queues; every handler is registered with
\* maxDequeueCount 2 and the default batch size, and queue q1 holds one plain message.
\* The iterations are not observed.
Init ==
  /\ InitService
  /\ startsLeft = MaxStarts
  /\ observe = FALSE
  /\ config = ConfigWith(Undefined)
  /\ opts \in [Calls -> {o \in Options : /\ o.maxDequeueCount = 2
                                          /\ o.maxMessages = Undefined
                                          /\ DefaultTiming(o)}]
  /\ store = [m \in Msgs |-> [queue |-> "q1", text |-> PlainText, dequeueCount |-> 0,
                              visible |-> TRUE, exists |-> m = 1, popReceipt |-> 0]]

\* One startPolling call per queue: the first call polls q1, the others q2; every handler is
\* registered with maxDequeueCount 2 and the default batch size; q1 holds message 1,
\* q2 the others.  The iterations are not observed.
InitQueues ==
  /\ InitService
  /\ startsLeft = Cardinality(Queues)
  /\ observe = FALSE
  /\ config = ConfigWith(Undefined)
  /\ opts = [c \in Calls |-> [queueName |-> IF c = 1 THEN "q1" ELSE "q2",
                               maxDequeueCount |-> 2, maxMessages |-> Undefined,
                               pollingInterval |-> Undefined, visibilityTimeout |-> Undefined]]
  /\ store = [m \in Msgs |-> [queue |-> IF m = 1 THEN "q1" ELSE "q2", text |-> PlainText,
                              dequeueCount |-> 0, visible |-> TRUE, exists |-> TRUE,
                              popReceipt |-> 0]]

\* One startPolling call on q1, registered with maxDequeueCount 2 and the default
\* batch size, over a queue that holds MaxMsgs plain messages.  The iterations are
\* not observed.
InitReconfigure ==
  /\ InitService
  /\ startsLeft = 1
  /\ observe = FALSE
  /\ config = ConfigWith(Undefined)
  /\ opts = [c \in Calls |-> [queueName |-> "q1", maxDequeueCount |-> 2,
                               maxMessages |-> Undefined,
                               pollingInterval |-> Undefined, visibilityTimeout |-> Undefined]]
  /\ store = [m \in Msgs |-> [queue |-> "q1", text |-> PlainText, dequeueCount |-> 0,
                              visible |-> TRUE, exists |-> TRUE, popReceipt |-> 0]]

\* One startPolling call on q1, registered with maxDequeueCount 2 and the default
\* batch size, over an empty queue the application sends to.  The transport keeps,
\* beside each message, the value it was sent as.  The iterations are not observed.
InitSend ==
  /\ InitService
  /\ startsLeft = 1
  /\ observe = FALSE
  /\ config = ConfigWith(Undefined)
  /\ opts = [c \in Calls |-> [queueName |-> "q1", maxDequeueCount |-> 2,
                               maxMessages |-> Undefined,
                               pollingInterval |-> Undefined, visibilityTimeout |-> Undefined]]
  /\ store = [m \in Msgs |-> [queue |-> "q1", text |-> <<>>, dequeueCount |-> 0,
                              visible |-> FALSE, exists |-> FALSE, popReceipt |-> 0,
                              sent |-> NoValue]]

\* One startPolling call on q1, with any options and any module defaults, over a
\* queue that holds one plain message.  The iterations are not observed.
InitResolve ==
  /\ InitService
  /\ startsLeft = 1
  /\ observe = FALSE
  /\ config \in [defaultMaxDequeueCount : ModuleDefaultOptions,
                 defaultPollingInterval : ModuleDefaultOptions,
                 defaultVisibilityTimeout : ModuleDefaultOptions]
  /\ \E o \in Options : o.queueName = "q1" /\ opts = [c \in Calls |-> o]
  /\ store = [m \in Msgs |-> [queue |-> "q1", text |-> PlainText, dequeueCount |-> 0,
                              visible |-> TRUE, exists |-> m = 1, popReceipt |-> 0]]

\* One startPolling call on q1, with any options and (where the code reads it) any
\* module default, over a queue that holds MaxMsgs messages of any text.  The
\* iterations are observed.
InitDispatch ==
  /\ InitService
  /\ startsLeft = 1
  /\ observe = TRUE
  /\ config \in {ConfigWith(v) : v \in DefaultMaxDequeueCountOptions}
  /\ \E o \in Options :
       /\ o.queueName = "q1"
       /\ DefaultTiming(o)
       \* a truthy option short-circuits `||`: the module default is never read
       /\ Truthy(o.maxDequeueCount) => config.defaultMaxDequeueCount = Undefined
       /\ opts = [c \in Calls |-> o]
  /\ store \in [Msgs -> [queue : {"q1"}, text : DispatchTexts, dequeueCount : {0},
                         visible : {TRUE}, exists : {TRUE}, popReceipt : {0}]]

\* ---------------------------------------------------------------- actions
\* startPolling(options, handler), lines 40-56: up to the await of createQueueIfNotExists.
StartPolling(c) ==
  /\ pc[c] = "idle"
  /\ startsLeft > 0
  /\ \A d \in Calls : d < c => pc[d] # "idle"
  /\ startsLeft' = startsLeft - 1
  /\ pc' = [pc EXCEPT ![c] = IF AlreadyPolling(opts[c].queueName)
                               THEN "ignored" ELSE "creating"]
  /\ maxMessages' = [maxMessages EXCEPT ![c] = ResolveMaxMessages(opts[c])]
  /\ pollingInterval' = [pollingInterval EXCEPT ![c] = ResolvePollingInterval(opts[c], config)]
  /\ visibilityTimeout' =
       [visibilityTimeout EXCEPT ![c] = ResolveVisibilityTimeout(opts[c], config)]
  /\ pollingIntervals' = HandleAtStart(c, opts[c])
  /\ UNCHANGED <<isShuttingDown, timerPending, config, observe, opts, batch,
                 idx, log, stopSeen, store>>

\* createIfNotExists resolved: lines 56-60 and 128-129, the first poll().
CreateQueueOk(c) ==
  /\ pc[c] = "creating"
  /\ PollTop(c)
  /\ UNCHANGED <<isShuttingDown, pollingIntervals, timerPending, config, observe, opts, maxMessages, pollingInterval, visibilityTimeout, startsLeft,
                 stopSeen, store>>

\* createIfNotExists rejected: the await of line 56 throws, startPolling's promise rejects.
CreateQueueFail(c) ==
  /\ pc[c] = "creating"
  /\ pc' = [pc EXCEPT ![c] = "rejected"]
  /\ UNCHANGED <<isShuttingDown, pollingIntervals, timerPending, config, observe, opts, maxMessages, pollingInterval, visibilityTimeout, startsLeft, batch,
                 idx, log, stopSeen, store>>

\* receiveMessages resolved (lines 62-83): the transport hands out the batch and the
\* for-of loop runs to its first await.
ReceiveOk(c) ==
  /\ pc[c] = "receiving"
  /\ LET q == opts[c].queueName
         ids == Received(q, maxMessages[c])
         b == [i \in 1..Len(ids) |-> Delivery(ids[i])]
         got == {ids[i] : i \in 1..Len(ids)}
     IN /\ store' = [m \in Msgs |->
                       IF m \in got
                         THEN [store[m] EXCEPT !.dequeueCount = @ + 1, !.visible = FALSE,
                                               !.popReceipt = store[m].dequeueCount + 1]
                         ELSE store[m]]
        /\ Continue(c, b, Advance(b, 1, <<>>, Threshold(c)))
  /\ UNCHANGED <<isShuttingDown, config, observe, opts, maxMessages, pollingInterval, visibilityTimeout, startsLeft, stopSeen>>

\* receiveMessages rejected: the outer catch (lines 118-120), then lines 122-125.
ReceiveFail(c) ==
  /\ pc[c] = "receiving"
  /\ log' = [log EXCEPT ![c] = Record(<<>>, <<EvReceiveErr>>)]
  /\ EndIteration(c)
  /\ Forget(c)
  /\ UNCHANGED <<isShuttingDown, config, observe, opts, maxMessages, pollingInterval, visibilityTimeout, startsLeft, stopSeen, store>>

\* The handler's promise resolved: line 86 issues deleteMessage.
HandlerOk(c) ==
  /\ pc[c] = "handling"
  /\ pc' = [pc EXCEPT ![c] = "deleting"]
  /\ log' = [log EXCEPT ![c] = Record(@, <<EvHandlerOk(Current(c)), DeleteCall(Current(c))>>)]
  /\ UNCHANGED <<isShuttingDown, pollingIntervals, timerPending, config, observe, opts, maxMessages, pollingInterval, visibilityTimeout, startsLeft, batch,
                 idx, stopSeen, store>>

\* The handler's promise rejected: the inner catch.
HandlerFail(c) ==
  /\ pc[c] = "handling"
  /\ Continue(c, batch[c], Catch(batch[c], idx[c], Record(log[c], <<EvHandlerErr(Current(c))>>),
                       Threshold(c)))
  /\ UNCHANGED <<isShuttingDown, config, observe, opts, maxMessages, pollingInterval, visibilityTimeout, startsLeft, stopSeen, store>>

\* deleteMessage of line 86 resolved: the message is gone; next message.
DeleteOk(c) ==
  /\ pc[c] = "deleting"
  /\ CanDelete(Current(c))
  /\ store' = [store EXCEPT ![Current(c).messageId] = Deleted(@)]
  /\ Continue(c, batch[c], Advance(batch[c], idx[c] + 1, Record(log[c], <<EvDeleteOk(Current(c))>>),
                         Threshold(c)))
  /\ UNCHANGED <<isShuttingDown, config, observe, opts, maxMessages, pollingInterval, visibilityTimeout, startsLeft, stopSeen>>

\* deleteMessage of line 86 rejected: it is inside the inner try, so the inner catch runs.
DeleteFail(c) ==
  /\ pc[c] = "deleting"
  /\ Continue(c, batch[c], Catch(batch[c], idx[c], Record(log[c], <<EvDeleteErr(Current(c))>>),
                       Threshold(c)))
  /\ UNCHANGED <<isShuttingDown, config, observe, opts, maxMessages, pollingInterval, visibilityTimeout, startsLeft, stopSeen, store>>

\* deleteMessage of line 110 resolved: next message.
PoisonDeleteOk(c) ==
  /\ pc[c] = "poisonDeleting"
  /\ CanDelete(Current(c))
  /\ store' = [store EXCEPT ![Current(c).messageId] = Deleted(@)]
  /\ Continue(c, batch[c], Advance(batch[c], idx[c] + 1, Record(log[c], <<EvDeleteOk(Current(c))>>),
                         Threshold(c)))
  /\ UNCHANGED <<isShuttingDown, config, observe, opts, maxMessages, pollingInterval, visibilityTimeout, startsLeft, stopSeen>>

\* deleteMessage of line 110 rejected: thrown out of the inner catch and the for-of
\* loop into the outer catch (lines 118-120); the rest of the batch is not visited.
PoisonDeleteFail(c) ==
  /\ pc[c] = "poisonDeleting"
  /\ log' = [log EXCEPT ![c] = Record(@, <<EvDeleteErr(Current(c))>>)]
  /\ EndIteration(c)
  /\ Forget(c)
  /\ UNCHANGED <<isShuttingDown, config, observe, opts, maxMessages, pollingInterval, visibilityTimeout, startsLeft, stopSeen, store>>

\* The timer armed at line 123 fires: poll() again.
TimerFires(c) ==
  /\ pc[c] = "sleeping"
  /\ timerPending[c]
  /\ timerPending' = [timerPending EXCEPT ![c] = TimerRearms]
  /\ PollTop(c)
  /\ UNCHANGED <<isShuttingDown, pollingIntervals, config, observe, opts, maxMessages, pollingInterval, visibilityTimeout, startsLeft, stopSeen, store>>

\* Call c has an iteration in flight / waits on a pending timer.
InFlight(c) == pc[c] \in {"receiving", "handling", "deleting", "poisonDeleting"}
Waiting(c) == pc[c] = "sleeping" /\ timerPending[c]
Running(c) == InFlight(c) \/ Waiting(c)

\* line 133: this.pollingIntervals.get(queueName)
StopTarget_any(q) ==
  LET held == {pollingIntervals[r] : r \in Queues} \ {NoTimer}
  IN IF held = {} THEN NoTimer ELSE CHOOSE t \in held : TRUE
StopTarget(q) == pollingIntervals[q]

\* stopPolling(queueName), lines 132-139.
StopPolling(q) ==
  /\ LET timeoutId == StopTarget(q)
     IN IF timeoutId # NoTimer
          THEN /\ timerPending' = [timerPending EXCEPT ![timeoutId] = FALSE]
               /\ pollingIntervals' = [pollingIntervals EXCEPT ![q] = NoTimer]
          ELSE UNCHANGED <<timerPending, pollingIntervals>>
  /\ stopSeen' = [c \in Calls |-> stopSeen[c] \/ (opts[c].queueName = q /\ Running(c))]
  /\ UNCHANGED <<isShuttingDown, config, observe, pc, opts, maxMessages, pollingInterval, visibilityTimeout, startsLeft, batch, idx, log, store>>

\* onModuleDestroy(), lines 141-148.
OnModuleDestroy ==
  /\ isShuttingDown' = TRUE
  /\ timerPending' = [c \in Calls |->
                        IF \E q \in Queues : pollingIntervals[q] = c
                          THEN FALSE ELSE timerPending[c]]
  /\ pollingIntervals' = [q \in Queues |-> NoTimer]
  /\ UNCHANGED <<config, observe, pc, opts, maxMessages, pollingInterval, visibilityTimeout, startsLeft, batch, idx, log, stopSeen, store>>

\* The transport: the visibility timeout of a delivered message elapses.
VisibilityExpires(m) ==
  /\ store[m].exists
  /\ ~store[m].visible
  /\ store[m].dequeueCount < MaxDequeue
  /\ store' = [store EXCEPT ![m].visible = TRUE]
  /\ UNCHANGED <<isShuttingDown, pollingIntervals, timerPending, config, observe, pc, opts, maxMessages, pollingInterval, visibilityTimeout, startsLeft,
                 batch, idx, log, stopSeen>>

\* The application changes the options object it passed to the startPolling call c
\* (line 41 holds it by reference), after that call.
SetOptions(c, o) ==
  /\ pc[c] # "idle"
  /\ o.queueName = opts[c].queueName
  /\ o # opts[c]
  /\ opts' = [opts EXCEPT ![c] = o]
  /\ UNCHANGED <<isShuttingDown, pollingIntervals, timerPending, config, observe, pc, maxMessages, pollingInterval, visibilityTimeout,
                 startsLeft, batch, idx, log, stopSeen, store>>

\* The application changes the module configuration object (line 17 holds it by
\* reference) after some startPolling call.
SetConfig(v) ==
  /\ \E c \in Calls : pc[c] # "idle"
  /\ v # config.defaultMaxDequeueCount
  /\ config' = [config EXCEPT !.defaultMaxDequeueCount = v]
  /\ UNCHANGED <<isShuttingDown, pollingIntervals, timerPending, observe, pc, opts, maxMessages, pollingInterval, visibilityTimeout,
                 startsLeft, batch, idx, log, stopSeen, store>>

\* sendMessage(queueName, message), lines 30-38, with the queue creation and the
\* transport's sendMessage resolved: the message is in the queue as slot m.
SendMessage(m, v) ==
  /\ ~store[m].exists
  /\ store[m].sent = NoValue
  /\ \A n \in Msgs : n < m => store[n].sent # NoValue
  /\ store' = [store EXCEPT ![m].exists = TRUE, ![m].visible = TRUE,
                            ![m].text = MessageContent(v), ![m].sent = v]
  /\ UNCHANGED <<isShuttingDown, pollingIntervals, timerPending, config, observe, pc, opts,
                 maxMessages, pollingInterval, visibilityTimeout, startsLeft, batch, idx, log, stopSeen>>

Next ==
  \/ \E c \in Calls : StartPolling(c)
  \/ \E c \in Calls : CreateQueueOk(c)
  \/ \E c \in Calls : CreateQueueFail(c)
  \/ \E c \in Calls : ReceiveOk(c)
  \/ \E c \in Calls : ReceiveFail(c)
  \/ \E c \in Calls : HandlerOk(c)
  \/ \E c \in Calls : HandlerFail(c)
  \/ \E c \in Calls : DeleteOk(c)
  \/ \E c \in Calls : DeleteFail(c)
  \/ \E c \in Calls : PoisonDeleteOk(c)
  \/ \E c \in Calls : PoisonDeleteFail(c)
  \/ \E c \in Calls : TimerFires(c)
  \/ \E q \in Queues : StopPolling(q)
  \/ OnModuleDestroy
  \/ \E m \in Msgs : VisibilityExpires(m)

Spec == Init /\ [][Next]_vars

SpecDispatch == InitDispatch /\ [][Next]_vars

SpecQueues == InitQueues /\ [][Next]_vars

\* The steps of Next, and the application changing the configuration after start.
NextReconfigure ==
  \/ Next
  \/ \E c \in Calls : \E o \in Options : SetOptions(c, o)
  \/ \E v \in DefaultMaxDequeueCountOptions : SetConfig(v)

SpecReconfigure == InitReconfigure /\ [][NextReconfigure]_vars

SpecResolve == InitResolve /\ [][Next]_vars

\* The steps of Next, and the application sending messages.
NextSend ==
  \/ Next
  \/ \E m \in Msgs : \E v \in SentValues : SendMessage(m, v)

SpecSend == InitSend /\ [][NextSend]_vars

\* A handler that always fails over a transport whose delete calls succeed: the
\* steps of Next without a resolved handler and without a rejected deleteMessage.
NextRetry ==
  \/ \E c \in Calls : StartPolling(c)
  \/ \E c \in Calls : CreateQueueOk(c)
  \/ \E c \in Calls : ReceiveOk(c)
  \/ \E c \in Calls : ReceiveFail(c)
  \/ \E c \in Calls : HandlerFail(c)
  \/ \E c \in Calls : PoisonDeleteOk(c)
  \/ \E c \in Calls : TimerFires(c)
  \/ \E m \in Msgs : VisibilityExpires(m)

SpecRetry == InitDispatch /\ [][NextRetry]_vars

\* ---------------------------------------------------------------- vocabulary of the claims
Range(sq) == {sq[i] : i \in 1..Len(sq)}
Max(a, b) == IF a > b THEN a ELSE b

\* Call c issues a receiveMessages call in this step.
ReceiveIssued(c) == pc[c] # "receiving" /\ pc'[c] = "receiving"

\* Call c arms a timer in this step.
TimerArmed(c) == ~timerPending[c] /\ timerPending'[c]

\* The iteration of call c has ended (its log is that of the whole iteration).
IterationEnded(c) == pc[c] \in {"sleeping", "stopped"} /\ log[c] # <<>>

\* The max dequeue count call c is configured with, as the documentation resolves it:
\* the handler option when provided, else the module default when provided, else 5.
ConfiguredMaxDequeueCount(c) ==
  JsDefault(opts[c].maxDequeueCount,
            JsDefault(config.defaultMaxDequeueCount, DefaultMaxDequeueCount))

\* The delete calls of a log that name message id.
DeletesOf(lg, id) == {i \in 1..Len(lg) : lg[i][1] = "delete" /\ lg[i][2] = id}

\* The message ids handed to the handler, in order.
HandlerIds(lg) ==
  LET hs == SelectSeq(lg, LAMBDA e : e[1] = "handler")
  IN [i \in 1..Len(hs) |-> hs[i][2]]

BatchIds(b) == [i \in 1..Len(b) |-> b[i].messageId]

\* ---------------------------------------------------------------- claims

\* C1: in every reachable state, every queue name has at most one active polling
\* cycle (receiving, dispatching, or waiting on a pending timer).
C1_AtMostOneActiveCycle ==
  \A q \in Queues :
    Cardinality({c \in Calls : opts[c].queueName = q /\ Running(c)}) <= 1

\* C2: a startPolling call for a queue whose loop is running (at any point of its
\* cycle, its first iteration included) and has not been stopped is ignored
\* (AlreadyPolling) and leaves that loop as it is.
C2_SecondStartIsIgnored ==
  [][\A c \in Calls :
       (/\ StartPolling(c)
        /\ ~isShuttingDown
        /\ \E d \in Calls \ {c} : /\ opts[d].queueName = opts[c].queueName
                                  /\ Running(d)
                                  /\ ~stopSeen[d])
       => pc'[c] = "ignored"]_vars

\* C3: once stopPolling(queueName) has been called for a running loop, that loop
\* issues no further receive call and its handle is not in the handle set.
C3_StopCancelsLoop ==
  [][\A c \in Calls :
       stopSeen[c] => /\ ~ReceiveIssued(c)
                      /\ pollingIntervals'[opts[c].queueName] # c]_vars

\* C4: after onModuleDestroy no receive call is started and no timer is armed by
\* any call, the handle map is empty, and a second onModuleDestroy changes nothing.
C4_ShutdownStopsAllLoops ==
  [][/\ isShuttingDown' => \A q \in Queues : pollingIntervals'[q] = NoTimer
     /\ isShuttingDown => /\ \A c \in Calls : ~ReceiveIssued(c) /\ ~TimerArmed(c)
                          /\ (OnModuleDestroy => UNCHANGED vars)]_vars

\* C4 witness: shutdown arrived during an iteration, which then ended without a timer.
C4_Witness ==
  /\ isShuttingDown
  /\ \E c \in Calls : pc[c] = "stopped" /\ ~timerPending[c]

\* C5: for every message whose handler returned normally, exactly one delete call
\* is issued in that dispatch, with the message's id and pop receipt.
C5_OneDeleteAfterSuccess ==
  \A c \in Calls : \A k \in 1..Len(batch[c]) :
    EvHandlerOk(batch[c][k]) \in Range(log[c])
      => /\ Cardinality(DeletesOf(log[c], batch[c][k].messageId)) = 1
         /\ \A i \in DeletesOf(log[c], batch[c][k].messageId) :
              log[c][i] = EvDelete(batch[c][k].messageId, batch[c][k].popReceipt)

\* C6: when a handler fails at dequeueCount >= maxDequeueCount, a delete call for
\* that message is issued and the call goes on (it neither ends nor rejects).
C6_PoisonDeletedOnFailure ==
  [][\A c \in Calls :
       (HandlerFail(c) /\ Current(c).dequeueCount >= ConfiguredMaxDequeueCount(c))
       => /\ pc'[c] = "poisonDeleting"
          /\ log'[c][Len(log'[c])] = EvDelete(Current(c).messageId, Current(c).popReceipt)]_vars

\* C7: when a handler fails at dequeueCount < maxDequeueCount, the service makes no
\* transport call about that message in that dispatch (no delete, no visibility change).
C7_NoDeleteBelowThreshold ==
  \A c \in Calls : \A k \in 1..Len(batch[c]) :
    (/\ EvHandlerErr(batch[c][k]) \in Range(log[c])
     /\ batch[c][k].dequeueCount < ConfiguredMaxDequeueCount(c))
    => \A i \in 1..Len(log[c]) :
         log[c][i][2] = batch[c][k].messageId => log[c][i][1] \in {"handler", "handlerErr"}

\* C7 witness: a dispatch that failed below the threshold is over.
C7_Witness ==
  \E c \in Calls : \E k \in 1..Len(batch[c]) :
    /\ EvHandlerErr(batch[c][k]) \in Range(log[c])
    /\ batch[c][k].dequeueCount < ConfiguredMaxDequeueCount(c)
    /\ IterationEnded(c)

\* C8: in every iteration whose receive succeeded, every received message has been
\* handed to the handler exactly once, in receive order, when the iteration ends.
C8_EveryMessageHandledInOrder ==
  \A c \in Calls :
    (IterationEnded(c) /\ log[c][1] # EvReceiveErr)
    => HandlerIds(log[c]) = BatchIds(batch[c])

\* C9: a delete call that fails after the handler returned normally ends the
\* dispatch of that message: no other delete call for it follows.
C9_FailedDeleteOnlyRecorded ==
  \A c \in Calls : \A k \in 1..Len(batch[c]) : \A i \in 1..Len(log[c]) :
    (/\ EvHandlerOk(batch[c][k]) \in Range(log[c])
     /\ log[c][i] = EvDeleteErr(batch[c][k]))
    => \A j \in (i + 1)..Len(log[c]) :
         ~(log[c][j][1] = "delete" /\ log[c][j][2] = batch[c][k].messageId)

\* C10: with a single loop, a handler that always fails and maxDequeueCount = N, a
\* message is not delivered again after the first delivery whose dequeueCount >= N:
\* no delivery has a dequeueCount above N (above 1, the first delivery's, when N < 1).
C10_RedeliveryBounded ==
  \A c \in Calls : \A k \in 1..Len(batch[c]) :
    (opts[c].maxDequeueCount # Undefined /\ ~ParsedBodyThrows(batch[c][k].messageText))
      => batch[c][k].dequeueCount <= Max(opts[c].maxDequeueCount, 1)

\* The message ids of the delete calls of a log, in order.
DeleteIds(lg) ==
  LET ds == SelectSeq(lg, LAMBDA e : e[1] = "delete")
  IN [i \in 1..Len(ds) |-> ds[i][2]]

\* The ids of the messages of batch b whose handler returned normally, in receive order.
SucceededIds(b, lg) ==
  LET ok == SelectSeq(b, LAMBDA m : EvHandlerOk(m) \in Range(lg))
  IN [i \in 1..Len(ok) |-> ok[i].messageId]

\* C11: when an iteration has ended in which every message's handler either returned
\* normally or failed below the configured maxDequeueCount, the delete calls of the
\* iteration are the messages whose handler returned normally, one call each, in
\* receive order.
C11_DeletesAreTheSuccesses ==
  \A c \in Calls :
    (/\ IterationEnded(c)
     /\ \A k \in 1..Len(batch[c]) :
          \/ EvHandlerOk(batch[c][k]) \in Range(log[c])
          \/ /\ EvHandlerErr(batch[c][k]) \in Range(log[c])
             /\ batch[c][k].dequeueCount < ConfiguredMaxDequeueCount(c))
    => DeleteIds(log[c]) = SucceededIds(batch[c], log[c])

\* C12: in every reachable state, whatever the cycle of another queue is doing (its
\* receive or delete call failing, its handler failing or not returning), a running
\* cycle can take its next step: its receive resolves, its handler settles, its
\* delete call is answered, and, unless stopPolling for its queue or onModuleDestroy
\* was called, its timer fires.
C12_QueuesAreIndependent ==
  \A d \in Calls :
    /\ pc[d] = "receiving" => ENABLED ReceiveOk(d)
    /\ pc[d] = "handling" => (ENABLED HandlerOk(d)) /\ (ENABLED HandlerFail(d))
    /\ pc[d] = "deleting" => ENABLED (DeleteOk(d) \/ DeleteFail(d))
    /\ pc[d] = "poisonDeleting" => ENABLED (PoisonDeleteOk(d) \/ PoisonDeleteFail(d))
    /\ (pc[d] = "sleeping" /\ ~stopSeen[d] /\ ~isShuttingDown) => ENABLED TimerFires(d)

\* C12 witness: the handler of one queue has not returned while the loop of another
\* queue has dispatched and deleted a message and waits for its next iteration.
C12_Witness ==
  \E c, d \in Calls :
    /\ opts[c].queueName # opts[d].queueName
    /\ pc[c] = "handling"
    /\ Waiting(d)
    /\ \E m \in Msgs : store[m].queue = opts[d].queueName /\ ~store[m].exists

\* The iteration of call c ends in this step.
IterationEnds(c) == InFlight(c) /\ ~InFlight(c)'

\* C13: a rejected receive ends the iteration at once (no handler is invoked, no
\* message is touched); every iteration that ends, however it went, leaves its timer
\* armed for the next one unless onModuleDestroy or stopPolling for its queue was
\* called; and a loop comes to an end only after onModuleDestroy.
C13_ErrorsNeverEndLoop ==
  [][\A c \in Calls :
       /\ ReceiveFail(c) => IterationEnds(c) /\ store' = store
       /\ (IterationEnds(c) /\ ~isShuttingDown /\ ~stopSeen[c])
            => pc'[c] = "sleeping" /\ timerPending'[c]
       /\ pc'[c] \in {"stopped", "returned"} => isShuttingDown]_vars

\* C13 witness: a message was delivered and is still in the queue (its handler or
\* its delete call failed), every iteration is over and a timer is armed.
C13_Witness ==
  /\ ~isShuttingDown
  /\ \E m \in Msgs : store[m].exists /\ store[m].dequeueCount >= 1
  /\ \A c \in Calls : ~InFlight(c)
  /\ \E c \in Calls : Waiting(c) /\ ~stopSeen[c]

\* C14: no startPolling call ends with its promise rejected, whatever the transport
\* does to the queue creation (stopPolling and onModuleDestroy have no failing step).
C14_StartNeverRejects ==
  \A c \in Calls : pc[c] # "rejected"

\* C15: no message is in two handler invocations at the same time: two calls never
\* await the handler for deliveries of the same message.
C15_OneHandlerPerMessage ==
  \A c, d \in Calls :
    (c # d /\ pc[c] = "handling" /\ pc[d] = "handling")
    => Current(c).messageId # Current(d).messageId

\* C16: the steps of one polling loop (the poll closure of one startPolling call)
\* are sequential: a timer is armed only by the step that ends an iteration, a
\* receive call is issued only by the first poll() or by the firing of that timer,
\* and no timer of the loop is pending while one of its iterations is in flight.
C16_IterationsNeverOverlap ==
  [][\A c \in Calls :
       /\ TimerArmed(c) => IterationEnds(c)
       /\ ReceiveIssued(c) =>
            \/ pc[c] = "creating"
            \/ pc[c] = "sleeping" /\ timerPending[c] /\ ~timerPending'[c]
       /\ timerPending'[c] => pc'[c] = "sleeping"]_vars

\* C16 witness: a loop that ended an iteration (it wrote its handle) has had its
\* timer fire and awaits the receive call of its next iteration.
C16_Witness ==
  \E c \in Calls :
    /\ pollingIntervals[opts[c].queueName] = c
    /\ pc[c] = "receiving"
    /\ ~timerPending[c]

\* Every loop started earlier for the queue of call c has been stopped: stopPolling
\* for that queue or onModuleDestroy was called while it was running, or it is over.
LoopsStopped(c) ==
  \A d \in Calls \ {c} :
    (opts[d].queueName = opts[c].queueName /\ pc[d] # "idle")
    => (stopSeen[d] \/ isShuttingDown \/ ~Running(d))

\* Some loop has polled the queue of call c.
StartedBefore(c) ==
  \E d \in Calls \ {c} :
    opts[d].queueName = opts[c].queueName /\ (InFlight(d) \/ pc[d] \in {"sleeping", "stopped"})

\* C17: a startPolling call for a queue whose earlier loops have all been stopped (by
\* stopPolling or by onModuleDestroy) is not ignored, and polling resumes: the
\* poll() that follows its queue creation passes the check of line 59 and issues a
\* receive call.
C17_RestartAfterStop ==
  [][\A c \in Calls :
       (StartPolling(c) /\ StartedBefore(c) /\ LoopsStopped(c))
       => pc'[c] = "creating" /\ ~ShutdownCheck']_vars

\* No loop is active for queue q.
NoActiveLoop(q) == \A c \in Calls : opts[c].queueName = q => ~Running(c)

\* C18: stopPolling for a queue name with no active loop changes nothing: the handle
\* map, the timers, the shutdown flag, every loop and the transport are as before.
C18_StopWithoutLoopIsNoop ==
  [][\A q \in Queues : (StopPolling(q) /\ NoActiveLoop(q)) => UNCHANGED vars]_vars

\* C18 witness: a queue has no active loop while the loop of another queue holds
\* its handle and waits on its timer.
C18_Witness ==
  \E q, r \in Queues :
    /\ q # r
    /\ NoActiveLoop(q)
    /\ \E d \in Calls : opts[d].queueName = r /\ Waiting(d) /\ pollingIntervals[r] = d

\* C19: a message whose handler throws is deleted as a poison message only when its
\* dequeue count exceeds the configured maxDequeueCount: after a failure at a
\* dequeueCount up to maxDequeueCount no delete call is issued (the message is
\* left for a retry).
C19_PoisonOnlyAboveMax ==
  [][\A c \in Calls :
       (HandlerFail(c) /\ Current(c).dequeueCount <= ConfiguredMaxDequeueCount(c))
       => pc'[c] # "poisonDeleting"]_vars

\* C20: once startPolling has been called, no step changes what the loop of that
\* call works with: the batch size it passes to receiveMessages and the poison
\* threshold its inner catch compares the dequeue count with.
C20_ConfigFixedAtStart ==
  [][\A c \in Calls :
       pc[c] # "idle" => /\ maxMessages'[c] = maxMessages[c]
                         /\ Threshold(c)' = Threshold(c)]_vars

\* C21: every message sent with sendMessage reaches the handler with the value it
\* was sent as: computing the body of a received message never throws (so the
\* handler is invoked for it), and the body the handler is awaited with equals
\* the sent value, a string as a string and a structured value as that value.
C21_SendReceiveRoundTrip ==
  \A c \in Calls :
    /\ \A k \in 1..Len(batch[c]) : ~ParsedBodyThrows(batch[c][k].messageText)
    /\ pc[c] = "handling" =>
         ParsedBody(Current(c).messageText) = store[Current(c).messageId].sent

\* A parameter as the documentation resolves it: the handler option when provided,
\* else the module default when provided, else the built-in default.
Documented(option, moduleDefault, builtIn) ==
  JsDefault(option, JsDefault(moduleDefault, builtIn))

\* C22: for every startPolling call made, each polling parameter it works with is
\* the handler option when provided (0 included), else the module default when
\* provided, else the built-in default (5000, 30, 1 and 5); maxMessages has no
\* module default.
C22_ParametersResolveAsDocumented ==
  \A c \in Calls :
    pc[c] # "idle" =>
      /\ pollingInterval[c] = Documented(opts[c].pollingInterval,
                                         config.defaultPollingInterval, DefaultPollingInterval)
      /\ visibilityTimeout[c] = Documented(opts[c].visibilityTimeout,
                                           config.defaultVisibilityTimeout,
                                           DefaultVisibilityTimeout)
      /\ maxMessages[c] = JsDefault(opts[c].maxMessages, DefaultMaxMessages)
      /\ Threshold(c) = Documented(opts[c].maxDequeueCount, config.defaultMaxDequeueCount,
                                   DefaultMaxDequeueCount)

\* C23: onModuleDestroy and stopPolling leave every dispatch in progress as it is,
\* and once either was called the dispatch goes on by the same policy: a handler
\* that is executing can still settle, a handler that returned normally is
\* followed by the delete call for its message, a handler that failed is followed
\* by the poison delete exactly when the dequeue count has reached the threshold,
\* and an answered delete call removes the message.
C23_ShutdownLeavesDispatchAlone ==
  [][/\ (OnModuleDestroy \/ \E q \in Queues : StopPolling(q))
          => pc' = pc /\ batch' = batch /\ idx' = idx /\ store' = store
     /\ \A c \in Calls :
          (isShuttingDown \/ stopSeen[c]) =>
            /\ pc[c] = "handling" => pc'[c] \in {"handling", "deleting", "poisonDeleting",
                                                 "sleeping", "stopped"}
            /\ HandlerOk(c) => pc'[c] = "deleting" /\ batch'[c] = batch[c] /\ idx'[c] = idx[c]
            /\ HandlerFail(c) =>
                 (pc'[c] = "poisonDeleting" <=> Current(c).dequeueCount >= Threshold(c))
            /\ (DeleteOk(c) \/ PoisonDeleteOk(c)) => ~store'[Current(c).messageId].exists]_vars

\* C23 witness: onModuleDestroy or stopPolling was called and the delete call that
\* follows a handler's normal return is in flight.
C23_Witness ==
  \E c \in Calls : (isShuttingDown \/ stopSeen[c]) /\ pc[c] = "deleting"

\* C24: a startPolling call whose queue creation fails begins no polling cycle: the
\* failing step leaves the handle map and the timers as they are, the call never
\* issues a receive call, arms a timer or writes a handle afterwards, and a start
\* for a queue whose other calls all failed that way is not ignored.
C24_FailedCreationStartsNothing ==
  [][\A c \in Calls :
       /\ CreateQueueFail(c) => /\ pollingIntervals' = pollingIntervals
                                /\ timerPending' = timerPending
       /\ pc[c] = "rejected" => /\ pc'[c] = "rejected"
                                /\ ~TimerArmed(c)
                                /\ pollingIntervals'[opts[c].queueName] # c
       /\ (/\ StartPolling(c)
           /\ \A d \in Calls \ {c} :
                opts[d].queueName = opts[c].queueName => pc[d] \in {"idle", "rejected"})
          => pc'[c] = "creating"]_vars

\* C24 witness: the queue creation of a call failed and a later call for the same
\* queue name polls.
C24_Witness ==
  \E c, d \in Calls :
    /\ c < d
    /\ opts[c].queueName = opts[d].queueName
    /\ pc[c] = "rejected"
    /\ pc[d] = "receiving"
    /\ \A q \in Queues : pollingIntervals[q] = NoTimer

\* C25: once isShuttingDown is set it stays set and the handle map stays empty,
\* whatever step follows (the end of an iteration in flight, a stopPolling, a
\* startPolling), and a cycle begun afterwards returns at its first step: no call
\* comes to await a receive call.
C25_ShutdownIsFinal ==
  [][isShuttingDown =>
       /\ isShuttingDown'
       /\ \A q \in Queues : pollingIntervals[q] = NoTimer /\ pollingIntervals'[q] = NoTimer
       /\ \A c \in Calls :
            /\ CreateQueueOk(c) => pc'[c] = "returned"
            /\ pc'[c] = "receiving" => pc[c] = "receiving"]_vars

\* C25 witness: after onModuleDestroy an iteration that was in flight has ended
\* and the cycle of another startPolling call has returned at its first step.
C25_Witness ==
  /\ isShuttingDown
  /\ \E c, d \in Calls : pc[c] = "stopped" /\ pc[d] = "returned"

====
